---- MODULE Spec2Model ----
(***************************************************************************)
(* State-machine model of the pricehunter client (HomeScreen.tsx and       *)
(* api/client.ts): the search poller, the search client, the search        *)
(* history store, the cart, the saved lists and the derived result view.   *)
(* Text is modelled as sequences: a query, a name or a history term is a   *)
(* sequence of one-character strings, a message is a sequence of words.    *)
(* null / undefined is None, a present value v is Some(v).                 *)
(***************************************************************************)
EXTENDS Integers, Sequences, FiniteSets, TLC

VARIABLES
    query,          \* useState query (text input)
    data,           \* useState data: Price[]
    loading,        \* useState loading
    error,          \* useState error: string | null
    hasSearched,    \* useState hasSearched
    statusMessage,  \* useState statusMessage: string | null
    location,       \* useState location: {city, province} | null
    searchHistory,  \* useState searchHistory: string[]
    stored,         \* AsyncStorage document '@search_history'
    storeQ,         \* AsyncStorage operations issued and not yet completed
    inflight,       \* searchProduct calls awaiting their HTTP response
    timers,         \* pending setTimeout callbacks, in scheduling order
    locationDone,   \* the mount effect that looks up the location has finished
    isSearchHistoryOpen, \* useState isSearchHistoryOpen (the history modal)
    histOps,        \* history entries the user has selected, deleted or cleared so far
    chains,         \* per search invocation: its arguments and what it has seen
    recorded,       \* terms in the order they were last recorded, newest first
    histBefore,     \* per operation of storeQ: searchHistory when it was started
    deleted,        \* terms deleted or cleared and not recorded again since
    cart,           \* useState cart: CartItem[]
    isListModalOpen, \* useState isListModalOpen (the modal that saves the cart)
    listName,       \* useState listName (text input of the list modal)
    selectedBrands, \* useState selectedBrands: string[]
    selectedStores, \* useState selectedStores: string[]
    selectedItems,  \* useState selectedItems: string[]
    sortAsc,        \* useState sortAsc
    filterOpen,     \* useState filterOpen (the filter modal)
    isHistoryOpen,  \* useState isHistoryOpen (the saved-lists modal)
    savedLists,     \* useState savedLists: the lists the saved-lists modal shows
    myLists,        \* AsyncStorage document '@my_lists'
    listQ,          \* AsyncStorage operations on '@my_lists' not yet completed
    alerts,         \* Alert.alert dialogs shown and not yet dismissed
    clock,          \* the value Date.now() returns
    listOps         \* saves started and loads of the saved lists started so far

vars == <<query, data, loading, error, hasSearched, statusMessage, location,
          searchHistory, stored, storeQ, inflight, timers, locationDone,
          isSearchHistoryOpen, histOps, chains, recorded, histBefore, deleted,
          cart, isListModalOpen, listName, selectedBrands, selectedStores,
          selectedItems, sortAsc, filterOpen, isHistoryOpen, savedLists,
          myLists, listQ, alerts, clock, listOps>>

uiVars == <<query, data, loading, error, hasSearched, statusMessage>>
pollVars == <<inflight, timers, chains>>
histVars == <<searchHistory, stored, storeQ, recorded, histBefore, deleted>>
envVars == <<location, locationDone, isSearchHistoryOpen, histOps>>
cartVars == <<cart, isListModalOpen, listName>>
filterVars == <<selectedBrands, selectedStores, selectedItems, sortAsc, filterOpen>>
listVars == <<isHistoryOpen, savedLists, myLists, listQ, alerts, clock, listOps>>
shopVars == <<cartVars, filterVars, listVars>>
searchVars == <<uiVars, pollVars, histVars, envVars>>

----------------------------------------------------------------------------
(* Bounds of the model *)

MaxSearches == 2    \* search invocations that pass the length check
MaxPolls == 2       \* requests one poll chain may issue
MaxHistoryOps == 2  \* history entries selected, deleted or cleared
MaxIndex == 3       \* the user acts on one of the first MaxIndex rendered entries
MaxItems == 3       \* units the cart holds
MaxListOps == 2     \* saves started and loads of the saved lists started
MaxClock == 2       \* the largest value the clock reaches

(* Program constants *)

MAX_HISTORY == 20
PollDelay == 4000
RateLimitDelay == 10000
SelectDelay == 100

----------------------------------------------------------------------------
(* Optional values *)

None == [some |-> FALSE]
Some(v) == [some |-> TRUE, v |-> v]

\* JavaScript truthiness of an optional string: undefined, null and "" are falsy
Truthy(o) == o.some /\ o.v # <<>>

\* a || b on an optional string a and a string b
OrElse(o, d) == IF Truthy(o) THEN o.v ELSE d

----------------------------------------------------------------------------
(* Text helpers *)

Lower(c) ==
    CASE c = "A" -> "a"
      [] c = "B" -> "b"
      [] OTHER -> c

toLowerCase(s) == [i \in 1..Len(s) |-> Lower(s[i])]

RECURSIVE trimStart(_)
trimStart(s) ==
    IF s # <<>> /\ Head(s) = " " THEN trimStart(Tail(s)) ELSE s

RECURSIVE trimEnd(_)
trimEnd(s) ==
    IF s # <<>> /\ s[Len(s)] = " " THEN trimEnd(SubSeq(s, 1, Len(s) - 1)) ELSE s

trim(s) == trimEnd(trimStart(s))

\* String.prototype.includes on word sequences
includes(s, needle) ==
    \E i \in 0..(Len(s) - Len(needle)) :
        \A j \in 1..Len(needle) : s[i + j] = needle[j]

\* Array.prototype.slice(0, n)
slice(s, n) == SubSeq(s, 1, IF Len(s) < n THEN Len(s) ELSE n)

----------------------------------------------------------------------------
(* Messages of the program *)

MsgSearchFailed == <<"Search", "failed">>
MsgRateLimit == <<"Rate", "limit", "exceeded.", "Try", "again", "later.">>
MsgTooMany == <<"Too", "many", "requests">>
MsgBusy == <<"Servidor", "ocupado,", "reintentando", "en", "breve...">>
MsgDefaultProgress == <<"Buscando", "mejores", "precios...">>
MsgDefaultError == <<"Error", "de", "conexion">>
MsgSearchingIn(city) == <<"Buscando", "en", city>>

DefaultCity == "MAR_DEL_PLATA"
DefaultProvince == "BUENOS_AIRES"

----------------------------------------------------------------------------
(* Inputs: listings, server answers, queries, addresses *)

PA == [url |-> "u1", store |-> "S1", brand |-> "B1",
       product_name |-> <<"A", "b", " ", "c">>, price |-> 10]
PA2 == [url |-> "u1", store |-> "S2", brand |-> "B1",
        product_name |-> <<"A", "b", " ", "c">>, price |-> 8]
PB == [url |-> "u2", store |-> "S2", brand |-> "B2",
       product_name |-> <<"b", "c">>, price |-> 10]

PC == [url |-> "u3", store |-> "S1", brand |-> "B2",
       product_name |-> <<"B", "a">>, price |-> 8]

ResultLists == { <<PA, PB, PA2>> }

Body(st, m, r) == [status |-> st, message |-> m, results |-> r]

ProgressBodies ==
    { Body("STARTED", None, None), Body("PROCESSING", Some(<<"Buscando...">>), None) }

CompletedBodies ==
    { Body("COMPLETED", None, r) : r \in {None} \cup { Some(l) : l \in ResultLists } }

EmptyBodies == { Body("EMPTY", None, None) }

Http(code, b) == [kind |-> "http", code |-> code, body |-> b]
NetErr(m) == [kind |-> "neterr", message |-> m]

NoBody == Body("NONE", None, None)

\* what the transport can hand back to one fetch
Outcomes ==
    { Http(200, b) : b \in ProgressBodies \cup CompletedBodies \cup EmptyBodies }
    \cup { Http(c, NoBody) : c \in {429, 500} }
    \cup { NetErr(None) }

L == <<"a", "b", "c", "d", "e">>

\* the i-th of 25 distinct two-letter terms
Term(i) == << L[((i - 1) \div 5) + 1], L[((i - 1) % 5) + 1] >>

\* a history of k distinct terms, newest first
StoredHistory(k) == [i \in 1..k |-> Term(k - i + 1)]

QueryInputs == { <<" ", " ">>, <<"A", "a">>, <<" ", "e", "e", " ">> }

\* the queries typed while the poller is observed
PollQueries == { <<"a">>, <<"a", "a">> }

Addresses ==
    { [city |-> "CORDOBA", subregion |-> "PUNILLA", region |-> "CBA"],
      [city |-> "", subregion |-> "TANDIL", region |-> ""] }

----------------------------------------------------------------------------
(* api/client.ts: searchProduct, from the HTTP outcome of its fetch *)

ok(code) == code >= 200 /\ code <= 299

Threw(m) == [threw |-> TRUE, message |-> m, value |-> NoBody]
Returned(b) == [threw |-> FALSE, message |-> None, value |-> b]

searchProduct(o) ==
    IF o.kind = "neterr" THEN Threw(o.message)
    ELSE IF ~ok(o.code) THEN Threw(Some(MsgSearchFailed))
    ELSE IF o.code = 429 THEN Threw(Some(MsgRateLimit))
    ELSE Returned(o.body)

----------------------------------------------------------------------------
(* HomeScreen.tsx: pollSearch, the part that runs once the request settles *)

\* rawResults.filter((item, index, self) => index === self.findIndex(t => t.url === item.url))
findIndex(self, url) == CHOOSE i \in 1..Len(self) :
    /\ self[i].url = url
    /\ \A j \in 1..(i - 1) : self[j].url # url

\* uniqueResults without the filter on url
uniqueResults_KeepsAll(rawResults) == rawResults

\* uniqueResults that keeps the last element of every url
uniqueResults_KeepsLast(rawResults) ==
    LET keep(i) == \A j \in (i + 1)..Len(rawResults) : rawResults[j].url # rawResults[i].url
        RECURSIVE go(_)
        go(i) == IF i > Len(rawResults) THEN <<>>
                 ELSE IF keep(i) THEN <<rawResults[i]>> \o go(i + 1)
                 ELSE go(i + 1)
    IN go(1)

uniqueResults(rawResults) ==
    LET keep(i) == i = findIndex(rawResults, rawResults[i].url)
        RECURSIVE go(_)
        go(i) == IF i > Len(rawResults) THEN <<>>
                 ELSE IF keep(i) THEN <<rawResults[i]>> \o go(i + 1)
                 ELSE go(i + 1)
    IN go(1)

\* The state the handler leaves, and the delay of the retry it schedules (0: none)
Effect(d, l, m, e, retry) ==
    [data |-> d, loading |-> l, statusMessage |-> m, error |-> e, retry |-> retry]

onResponse(response, cur) ==
    IF response.status = "COMPLETED"
    THEN Effect(uniqueResults(IF response.results.some THEN response.results.v ELSE <<>>),
                FALSE, None, cur.error, 0)
    ELSE IF response.status = "STARTED" \/ response.status = "PROCESSING"
    THEN Effect(cur.data, cur.loading,
                Some(OrElse(response.message, MsgDefaultProgress)), cur.error, PollDelay)
    ELSE Effect(cur.data, cur.loading, cur.statusMessage, cur.error, 0)

\* onError without setLoading(false)
onError_KeepsLoading(message, cur) ==
    IF message.some /\ includes(message.v, MsgTooMany)
    THEN Effect(cur.data, cur.loading, Some(MsgBusy), cur.error, RateLimitDelay)
    ELSE Effect(cur.data, cur.loading, cur.statusMessage,
                Some(OrElse(message, MsgDefaultError)), 0)

onError(message, cur) ==
    IF message.some /\ includes(message.v, MsgTooMany)
    THEN Effect(cur.data, cur.loading, Some(MsgBusy), cur.error, RateLimitDelay)
    ELSE Effect(cur.data, FALSE, cur.statusMessage,
                Some(OrElse(message, MsgDefaultError)), 0)

pollSearchSettled(r, cur) ==
    IF r.threw THEN onError(r.message, cur) ELSE onResponse(r.value, cur)

Current == [data |-> data, loading |-> loading, statusMessage |-> statusMessage,
            error |-> error]

Request(c, q, city, province, first) ==
    [chain |-> c, q |-> q, city |-> city, province |-> province, first |-> first]

PollTimer(c, q, city, province, delay) ==
    [kind |-> "poll", chain |-> c, q |-> q, city |-> city, province |-> province,
     delay |-> delay, hist |-> <<>>, loc |-> None]

SelectTimer(term, hist, loc) ==
    [kind |-> "select", chain |-> 0, q |-> term, city |-> "", province |-> "",
     delay |-> SelectDelay, hist |-> hist, loc |-> loc]

RemoveAt(s, i) == SubSeq(s, 1, i - 1) \o SubSeq(s, i + 1, Len(s))

IsProgress(o) ==
    o.kind = "http" /\ ok(o.code) /\ o.body.status \in {"STARTED", "PROCESSING"}

\* a retrying answer is only given while the chain may still issue a request
MayRetry(c) == chains[c].reqs < MaxPolls

Retries(o) == pollSearchSettled(searchProduct(o), Current).retry # 0

\* The response to request i arrives with outcome o: searchProduct settles and
\* pollSearch handles it; the first settlement of a search also resumes
\* handleSearchWithTerm, which sets hasSearched.
Respond(i, o) ==
    LET req == inflight[i]
        r == searchProduct(o)
        eff == pollSearchSettled(r, Current)
    IN /\ Retries(o) => MayRetry(req.chain)
       /\ data' = eff.data
       /\ loading' = eff.loading
       /\ statusMessage' = eff.statusMessage
       /\ error' = eff.error
       /\ hasSearched' = (hasSearched \/ req.first)
       /\ inflight' = RemoveAt(inflight, i)
       /\ timers' = IF eff.retry # 0
                    THEN Append(timers, PollTimer(req.chain, req.q, req.city,
                                                  req.province, eff.retry))
                    ELSE timers
       /\ chains' = [chains EXCEPT
                        ![req.chain].resps = @ + 1,
                        ![req.chain].progress = IF IsProgress(o) THEN @ + 1 ELSE @,
                        ![req.chain].last = Some([outcome |-> o, result |-> r])]
       /\ UNCHANGED <<query, envVars, histVars, shopVars>>

----------------------------------------------------------------------------
(* HomeScreen.tsx: the search history store *)

SelectSeqNe(s, t) ==
    LET RECURSIVE go(_)
        go(i) == IF i > Len(s) THEN <<>>
                 ELSE IF s[i] # t THEN <<s[i]>> \o go(i + 1)
                 ELSE go(i + 1)
    IN go(1)

SelectSeqNeLower(s, t) ==
    LET RECURSIVE go(_)
        go(i) == IF i > Len(s) THEN <<>>
                 ELSE IF toLowerCase(s[i]) # toLowerCase(t) THEN <<s[i]>> \o go(i + 1)
                 ELSE go(i + 1)
    IN go(1)

\* newHistory with a filter that compares case-sensitively
newHistory_CaseSensitive(term, hist) ==
    LET trimmedTerm == trim(term)
        filtered == SelectSeqNe(hist, trimmedTerm)
    IN slice(<<trimmedTerm>> \o filtered, MAX_HISTORY)

\* saveToHistory's newHistory, from the searchHistory its closure holds
newHistory(term, hist) ==
    LET trimmedTerm == trim(term)
        filtered == SelectSeqNeLower(hist, trimmedTerm)
    IN slice(<<trimmedTerm>> \o filtered, MAX_HISTORY)

StoreOp(op, v) == [op |-> op, value |-> v]

\* the order of last recording, newest first, after term is recorded
Recorded(term) ==
    IF trim(term) = <<>> THEN recorded
    ELSE <<toLowerCase(trim(term))>> \o SelectSeqNe(recorded, toLowerCase(trim(term)))

\* saveToHistory(term) run with the closure value hist of searchHistory
saveToHistory(term, hist) ==
    IF trim(term) = <<>>
    THEN UNCHANGED histVars
    ELSE /\ searchHistory' = newHistory(term, hist)
         /\ storeQ' = Append(storeQ, StoreOp("set", newHistory(term, hist)))
         /\ recorded' = Recorded(term)
         /\ histBefore' = Append(histBefore, searchHistory)
         /\ deleted' = deleted \ {toLowerCase(trim(term))}
         /\ UNCHANGED stored

\* location?.city || "MAR_DEL_PLATA" and location?.province || "BUENOS_AIRES"
Or(a, b) == IF a # "" THEN a ELSE b
cityOf(loc) == IF loc.some THEN Or(loc.v.city, DefaultCity) ELSE DefaultCity
provinceOf(loc) == IF loc.some THEN Or(loc.v.province, DefaultProvince) ELSE DefaultProvince

Chain(q, city, province, hist) ==
    [q |-> q, city |-> city, province |-> province, hist |-> hist, reqs |-> 1,
     resps |-> 0, progress |-> 0, last |-> None]

\* handleSearchWithTerm without the check of the term's length
handleSearchWithTerm_NoLengthCheck(overrideTerm, q, loc, hist, rest) ==
    LET searchTerm == OrElse(overrideTerm, q)
        city == cityOf(loc)
        province == provinceOf(loc)
        c == Len(chains) + 1
    IN /\ Len(chains) < MaxSearches
       /\ saveToHistory(searchTerm, hist)
       /\ loading' = TRUE
       /\ error' = None
       /\ statusMessage' = Some(MsgSearchingIn(city))
       /\ data' = <<>>
       /\ inflight' = Append(inflight, Request(c, searchTerm, city, province, TRUE))
       /\ chains' = Append(chains, Chain(searchTerm, city, province, hist))
       /\ timers' = rest

\* handleSearchWithTerm(overrideTerm) run with the closure values q, loc, hist of
\* query, location and searchHistory, up to the request pollSearch sends.
\* rest: the timers that stay pending.
handleSearchWithTerm(overrideTerm, q, loc, hist, rest) ==
    LET searchTerm == OrElse(overrideTerm, q)
        city == cityOf(loc)
        province == provinceOf(loc)
        c == Len(chains) + 1
    IN IF Len(searchTerm) < 2
       THEN /\ timers' = rest
            /\ UNCHANGED <<data, loading, error, statusMessage, inflight, chains, histVars>>
       ELSE /\ Len(chains) < MaxSearches
            /\ saveToHistory(searchTerm, hist)
            /\ loading' = TRUE
            /\ error' = None
            /\ statusMessage' = Some(MsgSearchingIn(city))
            /\ data' = <<>>
            /\ inflight' = Append(inflight, Request(c, searchTerm, city, province, TRUE))
            /\ chains' = Append(chains, Chain(searchTerm, city, province, hist))
            /\ timers' = rest

\* Which part of the screen takes the user's touches: a dialog of Alert.alert
\* covers everything, a Modal covers the main screen, and the saved-lists Modal
\* (later in the tree) covers the list Modal.
NoAlert == alerts = <<>>
AtMain ==
    /\ NoAlert
    /\ ~isSearchHistoryOpen /\ ~isListModalOpen /\ ~isHistoryOpen /\ ~filterOpen
AtListModal == NoAlert /\ isListModalOpen /\ ~isHistoryOpen
AtSavedLists == NoAlert /\ isHistoryOpen
AtFilters == NoAlert /\ filterOpen /\ ~isListModalOpen /\ ~isHistoryOpen

\* onChangeText={setQuery}
SetQuery(q) ==
    /\ AtMain
    /\ query' = q
    /\ UNCHANGED <<data, loading, error, hasSearched, statusMessage, envVars,
                   histVars, pollVars, shopVars>>

\* the Buscar button: onPress={() => handleSearchWithTerm()}
PressSearch ==
    /\ AtMain
    /\ handleSearchWithTerm(None, query, location, searchHistory, timers)
    /\ UNCHANGED <<query, hasSearched, envVars, shopVars>>

\* an earlier timer with a delay that is not longer fires first
CanFire(i) == \A j \in 1..(i - 1) : timers[j].delay > timers[i].delay

\* a retry timer that stays armed after it has fired
PollTimerFires_Repeats(i) ==
    LET t == timers[i]
    IN /\ t.kind = "poll"
       /\ CanFire(i)
       /\ chains[t.chain].reqs < MaxPolls
       /\ timers' = timers
       /\ inflight' = Append(inflight, Request(t.chain, t.q, t.city, t.province, FALSE))
       /\ chains' = [chains EXCEPT ![t.chain].reqs = @ + 1]
       /\ UNCHANGED <<uiVars, envVars, histVars, shopVars>>

\* setTimeout(() => pollSearch(searchQuery, userCity, userProvince), delay) fires
PollTimerFires(i) ==
    LET t == timers[i]
    IN /\ t.kind = "poll"
       /\ CanFire(i)
       /\ timers' = RemoveAt(timers, i)
       /\ inflight' = Append(inflight, Request(t.chain, t.q, t.city, t.province, FALSE))
       /\ chains' = [chains EXCEPT ![t.chain].reqs = @ + 1]
       /\ UNCHANGED <<uiVars, envVars, histVars, shopVars>>

\* the history button: onPress={() => setIsSearchHistoryOpen(true)}, and Cerrar
OpenSearchHistory ==
    /\ AtMain
    /\ isSearchHistoryOpen' = TRUE
    /\ UNCHANGED <<uiVars, location, locationDone, histOps, histVars, pollVars,
                   shopVars>>

CloseSearchHistory ==
    /\ isSearchHistoryOpen
    /\ isSearchHistoryOpen' = FALSE
    /\ UNCHANGED <<uiVars, location, locationDone, histOps, histVars, pollVars,
                   shopVars>>

\* handleHistorySelect(term) on a rendered entry
handleHistorySelect(i) ==
    /\ isSearchHistoryOpen
    /\ histOps < MaxHistoryOps
    /\ histOps' = histOps + 1
    /\ query' = searchHistory[i]
    /\ isSearchHistoryOpen' = FALSE
    /\ timers' = Append(timers, SelectTimer(searchHistory[i], searchHistory, location))
    /\ UNCHANGED <<data, loading, error, hasSearched, statusMessage, location,
                   locationDone, histVars, inflight, chains, shopVars>>

\* setTimeout(() => handleSearchWithTerm(term), 100) fires
SelectTimerFires(i) ==
    LET t == timers[i]
    IN /\ t.kind = "select"
       /\ CanFire(i)
       /\ handleSearchWithTerm(Some(t.q), query, t.loc, t.hist, RemoveAt(timers, i))
       /\ UNCHANGED <<query, hasSearched, envVars, shopVars>>

\* deleteHistoryItem(term) on a rendered entry
deleteHistoryItem(i) ==
    LET updated == SelectSeqNe(searchHistory, searchHistory[i])
    IN /\ isSearchHistoryOpen
       /\ histOps < MaxHistoryOps
       /\ histOps' = histOps + 1
       /\ searchHistory' = updated
       /\ storeQ' = Append(storeQ, StoreOp("set", updated))
       /\ histBefore' = Append(histBefore, searchHistory)
       /\ deleted' = deleted \cup {toLowerCase(searchHistory[i])}
       /\ UNCHANGED <<uiVars, location, locationDone, isSearchHistoryOpen, stored,
                      recorded, pollVars, shopVars>>

clearAllHistory ==
    /\ isSearchHistoryOpen
    /\ histOps < MaxHistoryOps
    /\ histOps' = histOps + 1
    /\ searchHistory' = <<>>
    /\ storeQ' = Append(storeQ, StoreOp("remove", <<>>))
    /\ histBefore' = Append(histBefore, searchHistory)
    /\ deleted' = deleted \cup { toLowerCase(searchHistory[i]) : i \in 1..Len(searchHistory) }
    /\ UNCHANGED <<uiVars, location, locationDone, isSearchHistoryOpen, stored,
                   recorded, pollVars, shopVars>>

\* AsyncStorage completes its oldest operation, successfully or not.  A getItem
\* is loadSearchHistory's: its continuation runs with the document read.
StorageCompletes(success) ==
    LET o == Head(storeQ)
    IN /\ storeQ # <<>>
       /\ storeQ' = Tail(storeQ)
       /\ stored' = IF ~success THEN stored
                    ELSE IF o.op = "set" THEN Some(o.value)
                    ELSE IF o.op = "remove" THEN None
                    ELSE stored
       /\ searchHistory' = IF success /\ o.op = "get" /\ stored.some
                           THEN stored.v ELSE searchHistory
       /\ histBefore' = Tail(histBefore)
       /\ UNCHANGED <<uiVars, envVars, recorded, deleted, pollVars, shopVars>>

\* the mount effect: getClientLocation, reverseGeocodeAsync, setLocation
LocationEffect(address) ==
    /\ ~locationDone
    /\ locationDone' = TRUE
    /\ location' = IF address.some
                   THEN Some([city |-> Or(address.v.city, Or(address.v.subregion, "Unknown")),
                              province |-> Or(address.v.region, "Unknown")])
                   ELSE location
    /\ UNCHANGED <<uiVars, isSearchHistoryOpen, histOps, histVars, pollVars,
                   shopVars>>

----------------------------------------------------------------------------
(* HomeScreen.tsx: the derived view (facet lists, filtered) *)

\* Array.prototype.includes on an array of strings
has(arr, x) == \E i \in 1..Len(arr) : arr[i] = x

\* Array.from(new Set(arr)): the distinct values in order of first appearance
RECURSIVE fromSet(_)
fromSet(arr) ==
    IF arr = <<>> THEN <<>>
    ELSE LET front == fromSet(SubSeq(arr, 1, Len(arr) - 1))
             x == arr[Len(arr)]
         IN IF has(front, x) THEN front ELSE Append(front, x)

storeFilter == fromSet([i \in 1..Len(data) |-> data[i].store])
brandFilter == fromSet([i \in 1..Len(data) |-> data[i].brand])

\* the comparator of result.sort: a.price - b.price or b.price - a.price
compare(a, b, asc) == IF asc THEN a.price - b.price ELSE b.price - a.price

\* Array.prototype.sort is stable: an element goes behind every element that
\* does not compare greater than it
RECURSIVE insertSorted(_, _, _)
insertSorted(sorted, x, asc) ==
    IF sorted = <<>> THEN <<x>>
    ELSE IF compare(Head(sorted), x, asc) <= 0
         THEN <<Head(sorted)>> \o insertSorted(Tail(sorted), x, asc)
         ELSE <<x>> \o sorted

\* sort that sorts ascending and reverses the result for descending
RECURSIVE sort_ReversesForDescending(_, _)
sort_ReversesForDescending(arr, asc) ==
    IF asc
    THEN IF arr = <<>> THEN <<>>
         ELSE insertSorted(sort_ReversesForDescending(SubSeq(arr, 1, Len(arr) - 1), TRUE),
                           arr[Len(arr)], TRUE)
    ELSE LET up == sort_ReversesForDescending(arr, TRUE)
         IN [i \in 1..Len(up) |-> up[Len(up) + 1 - i]]

RECURSIVE sort(_, _)
sort(arr, asc) ==
    IF arr = <<>> THEN <<>>
    ELSE insertSorted(sort(SubSeq(arr, 1, Len(arr) - 1), asc), arr[Len(arr)], asc)

\* passes with the brand selection tested against the store
passes_BrandOnStore(p, brands, stores, items) ==
    LET brandOk == Len(brands) = 0 \/ has(brands, p.store)
        storeOk == Len(stores) = 0 \/ has(stores, p.store)
        itemOk == Len(items) = 0
                  \/ \E k \in 1..Len(items) :
                        includes(toLowerCase(p.product_name), toLowerCase(items[k]))
    IN brandOk /\ storeOk /\ itemOk

\* the predicate of data.filter in filtered
passes(p, brands, stores, items) ==
    LET brandOk == Len(brands) = 0 \/ has(brands, p.brand)
        storeOk == Len(stores) = 0 \/ has(stores, p.store)
        itemOk == Len(items) = 0
                  \/ \E k \in 1..Len(items) :
                        includes(toLowerCase(p.product_name), toLowerCase(items[k]))
    IN brandOk /\ storeOk /\ itemOk

\* filtered, from the values its useMemo depends on
filtered(d, brands, stores, items, asc) ==
    sort(SelectSeq(d, LAMBDA p : passes(p, brands, stores, items)), asc)

\* the list the FlatList renders
Shown == filtered(data, selectedBrands, selectedStores, selectedItems, sortAsc)

\* const cheapestPrice = filtered[0]?.price, for the list l that is rendered
cheapestPrice(l) == IF l = <<>> THEN None ELSE Some(l[1].price)

\* item.price === cheapestPrice && styles.cheapest: entry i is marked
cheapest(l, i) == cheapestPrice(l) = Some(l[i].price)

\* prev.includes(x) ? prev.filter(y => y !== x) : [...prev, x]
toggle(prev, x) ==
    IF has(prev, x) THEN SelectSeq(prev, LAMBDA y : y # x) ELSE Append(prev, x)

\* Filtros and Aplicar
OpenFilters ==
    /\ AtMain
    /\ filterOpen' = TRUE
    /\ UNCHANGED <<searchVars, cartVars, listVars, selectedBrands, selectedStores,
                   selectedItems, sortAsc>>

CloseFilters ==
    /\ AtFilters
    /\ filterOpen' = FALSE
    /\ UNCHANGED <<searchVars, cartVars, listVars, selectedBrands, selectedStores,
                   selectedItems, sortAsc>>

\* the checkbox of brand b / of store s in the filter modal
ToggleBrand(b) ==
    /\ AtFilters
    /\ has(brandFilter, b)
    /\ selectedBrands' = toggle(selectedBrands, b)
    /\ UNCHANGED <<searchVars, cartVars, listVars, selectedStores, selectedItems,
                   sortAsc, filterOpen>>

ToggleStore(st) ==
    /\ AtFilters
    /\ has(storeFilter, st)
    /\ selectedStores' = toggle(selectedStores, st)
    /\ UNCHANGED <<searchVars, cartVars, listVars, selectedBrands, selectedItems,
                   sortAsc, filterOpen>>

\* the Precio button: setSortAsc(s => !s)
ToggleSort ==
    /\ AtMain
    /\ sortAsc' = ~sortAsc
    /\ UNCHANGED <<searchVars, cartVars, listVars, selectedBrands, selectedStores,
                   selectedItems, filterOpen>>

----------------------------------------------------------------------------
(* HomeScreen.tsx: the cart *)

CartItem(p, n) ==
    [url |-> p.url, store |-> p.store, brand |-> p.brand,
     product_name |-> p.product_name, price |-> p.price, quantity |-> n]

\* the units in the cart
RECURSIVE Units(_)
Units(c) == IF c = <<>> THEN 0 ELSE c[1].quantity + Units(Tail(c))

\* added that appends without looking for the url
added_AlwaysAppends(prev, product) == Append(prev, CartItem(product, 1))

\* added that moves the item it increments to the end
added_MovesToEnd(prev, product) ==
    IF \E i \in 1..Len(prev) : prev[i].url = product.url
    THEN LET k == CHOOSE i \in 1..Len(prev) : prev[i].url = product.url
         IN Append(SelectSeq(prev, LAMBDA x : x.url # product.url),
                   [prev[k] EXCEPT !.quantity = @ + 1])
    ELSE Append(prev, CartItem(product, 1))

\* the updater of setCart in addToCart
added(prev, product) ==
    IF \E i \in 1..Len(prev) : prev[i].url = product.url
    THEN [i \in 1..Len(prev) |->
            IF prev[i].url = product.url
            THEN [prev[i] EXCEPT !.quantity = @ + 1]
            ELSE prev[i]]
    ELSE Append(prev, CartItem(product, 1))

\* the "+ Añadir" button of the rendered listing i
addToCart(i) ==
    /\ AtMain
    /\ Units(cart) < MaxItems
    /\ cart' = added(cart, Shown[i])
    /\ UNCHANGED <<searchVars, isListModalOpen, listName, filterVars, listVars>>

\* the updater of setCart in removeFromCart
removed(prev, url) == SelectSeq(prev, LAMBDA i : i.url # url)

\* the remove button of cart item i in the list modal
removeFromCart(i) ==
    /\ AtListModal
    /\ cart' = removed(cart, cart[i].url)
    /\ UNCHANGED <<searchVars, isListModalOpen, listName, filterVars, listVars>>

\* totalCartPrice that adds each item's price once
RECURSIVE totalCartPrice_IgnoresQuantity(_)
totalCartPrice_IgnoresQuantity(c) ==
    IF c = <<>> THEN 0
    ELSE totalCartPrice_IgnoresQuantity(SubSeq(c, 1, Len(c) - 1)) + c[Len(c)].price

\* cart.reduce((sum, item) => sum + item.price * item.quantity, 0)
RECURSIVE totalCartPrice(_)
totalCartPrice(c) ==
    IF c = <<>> THEN 0
    ELSE totalCartPrice(SubSeq(c, 1, Len(c) - 1)) + c[Len(c)].price * c[Len(c)].quantity

\* the banner shown while the cart is not empty, and Cancelar
OpenListModal ==
    /\ AtMain
    /\ Len(cart) > 0
    /\ isListModalOpen' = TRUE
    /\ UNCHANGED <<searchVars, cart, listName, filterVars, listVars>>

CloseListModal ==
    /\ AtListModal
    /\ isListModalOpen' = FALSE
    /\ UNCHANGED <<searchVars, cart, listName, filterVars, listVars>>

\* onChangeText={setListName}
SetListName(n) ==
    /\ AtListModal
    /\ listName' = n
    /\ UNCHANGED <<searchVars, cart, isListModalOpen, filterVars, listVars>>

----------------------------------------------------------------------------
(* HomeScreen.tsx: the saved lists *)

AlertNameRequired == <<"Error", "Ponle un nombre a tu lista">>
AlertSaved == <<"Exito", "Lista guardada">>
AlertSaveFailed == <<"Error", "Error al guardar">>
AlertLoadFailed == <<"Error", "No se pudieron cargar las listas">>

\* Number.prototype.toString: the decimal digits of n
RECURSIVE toString(_)
toString(n) == IF n < 10 THEN <<n>> ELSE Append(toString(n \div 10), n % 10)

\* the object saveListToDevice builds (its date is left out)
NewList(id, name, items, total) ==
    [id |-> id, name |-> name, items |-> items, total |-> total]

\* an operation on '@my_lists' with what its continuation holds
ListOp(op, who, name, items, total, id, value) ==
    [op |-> op, who |-> who, name |-> name, items |-> items, total |-> total,
     id |-> id, value |-> value]

\* existingData ? JSON.parse(existingData) : []
parsed(doc) == IF doc.some THEN doc.v ELSE <<>>

\* saveListToDevice without the check of the name
saveListToDevice_SkipsCheck ==
    /\ AtListModal
    /\ listOps < MaxListOps
    /\ listOps' = listOps + 1
    /\ listQ' = Append(listQ, ListOp("get", "save", listName, cart,
                                     totalCartPrice(cart), <<>>, <<>>))
    /\ UNCHANGED <<searchVars, cartVars, filterVars, isHistoryOpen, savedLists,
                   myLists, alerts, clock>>

\* "Guardar en Memoria": saveListToDevice up to its first await
saveListToDevice ==
    /\ AtListModal
    /\ IF trim(listName) = <<>>
       THEN /\ alerts' = Append(alerts, AlertNameRequired)
            /\ UNCHANGED <<listQ, listOps>>
       ELSE /\ listOps < MaxListOps
            /\ listOps' = listOps + 1
            /\ listQ' = Append(listQ, ListOp("get", "save", listName, cart,
                                             totalCartPrice(cart), <<>>, <<>>))
            /\ UNCHANGED alerts
    /\ UNCHANGED <<searchVars, cartVars, filterVars, isHistoryOpen, savedLists,
                   myLists, clock>>

\* "Mis Listas": loadSavedLists up to its await
loadSavedLists ==
    /\ AtMain
    /\ listOps < MaxListOps
    /\ listOps' = listOps + 1
    /\ listQ' = Append(listQ, ListOp("get", "load", <<>>, <<>>, 0, <<>>, <<>>))
    /\ UNCHANGED <<searchVars, cartVars, filterVars, isHistoryOpen, savedLists,
                   myLists, alerts, clock>>

\* "Cerrar Historial"
CloseSavedLists ==
    /\ AtSavedLists
    /\ isHistoryOpen' = FALSE
    /\ UNCHANGED <<searchVars, cartVars, filterVars, savedLists, myLists, listQ,
                   alerts, clock, listOps>>

withoutId(lists, id) == SelectSeq(lists, LAMBDA l : l.id # id)

\* "Borrar" on the rendered list i: deleteList(item.id) up to its await
deleteList(i) ==
    LET id == savedLists[i].id
        updated == withoutId(savedLists, id)
    IN /\ AtSavedLists
       /\ savedLists' = updated
       /\ listQ' = Append(listQ, ListOp("set", "delete", <<>>, <<>>, 0, id, updated))
       /\ UNCHANGED <<searchVars, cartVars, filterVars, isHistoryOpen, myLists,
                      alerts, clock, listOps>>

\* AsyncStorage completes its oldest operation on '@my_lists', successfully or
\* not, and the function awaiting it goes on to its next await or to its end.
ListStorageCompletes(success) ==
    LET o == Head(listQ)
        newList == NewList(toString(clock), o.name, o.items, o.total)
        write == ListOp("set", "save", o.name, o.items, o.total, newList.id,
                        <<newList>> \o parsed(myLists))
    IN /\ listQ # <<>>
       /\ listQ' = IF success /\ o.who = "save" /\ o.op = "get"
                   THEN Append(Tail(listQ), write)
                   ELSE Tail(listQ)
       /\ myLists' = IF success /\ o.op = "set" THEN Some(o.value) ELSE myLists
       /\ alerts' = IF o.who = "save" /\ ~success THEN Append(alerts, AlertSaveFailed)
                    ELSE IF o.who = "save" /\ o.op = "set"
                    THEN Append(alerts, AlertSaved)
                    ELSE IF o.who = "load" /\ ~success
                    THEN Append(alerts, AlertLoadFailed)
                    ELSE alerts
       /\ IF success /\ o.who = "save" /\ o.op = "set"
          THEN cart' = <<>> /\ listName' = <<>> /\ isListModalOpen' = FALSE
          ELSE UNCHANGED cartVars
       /\ savedLists' = IF success /\ o.who = "load" /\ myLists.some
                        THEN myLists.v ELSE savedLists
       /\ isHistoryOpen' = IF success /\ o.who = "load" THEN TRUE ELSE isHistoryOpen
       /\ UNCHANGED <<searchVars, filterVars, clock, listOps>>

\* the button of the dialog on top
DismissAlert ==
    /\ alerts # <<>>
    /\ alerts' = Tail(alerts)
    /\ UNCHANGED <<searchVars, cartVars, filterVars, isHistoryOpen, savedLists,
                   myLists, listQ, clock, listOps>>

\* time passes
Tick ==
    /\ clock < MaxClock
    /\ clock' = clock + 1
    /\ UNCHANGED <<searchVars, cartVars, filterVars, isHistoryOpen, savedLists,
                   myLists, listQ, alerts, listOps>>

----------------------------------------------------------------------------
(* Specifications *)

\* the rendered entries the user acts on
Rendered == { i \in 1..Len(searchHistory) : i <= MaxIndex }

\* histories a previous session can have left in storage
InitSizes == {0, 3, MAX_HISTORY}

InitCommon ==
    /\ query = <<>>
    /\ data = <<>>
    /\ loading = FALSE
    /\ error = None
    /\ hasSearched = FALSE
    /\ statusMessage = None
    /\ location = None
    /\ searchHistory = <<>>
    /\ storeQ = <<StoreOp("get", <<>>)>>
    /\ histBefore = << <<>> >>
    /\ deleted = {}
    /\ inflight = <<>>
    /\ timers = <<>>
    /\ locationDone = FALSE
    /\ isSearchHistoryOpen = FALSE
    /\ histOps = 0
    /\ chains = <<>>
    /\ cart = <<>>
    /\ isListModalOpen = FALSE
    /\ listName = <<>>
    /\ selectedBrands = <<>>
    /\ selectedStores = <<>>
    /\ selectedItems = <<>>
    /\ sortAsc = TRUE
    /\ filterOpen = FALSE
    /\ isHistoryOpen = FALSE
    /\ savedLists = <<>>
    /\ listQ = <<>>
    /\ alerts = <<>>
    /\ clock = 1
    /\ listOps = 0

Init ==
    /\ InitCommon
    /\ stored = None
    /\ recorded = <<>>
    /\ myLists = None

Next ==
    \/ \E q \in PollQueries : SetQuery(q)
    \/ PressSearch
    \/ \E i \in 1..Len(inflight), o \in Outcomes : Respond(i, o)
    \/ \E i \in 1..Len(timers) : PollTimerFires(i)
    \/ \E a \in {None} \cup { Some(x) : x \in Addresses } : LocationEffect(a)

Spec == Init /\ [][Next]_vars

InitHistory ==
    /\ InitCommon
    /\ myLists = None
    /\ \E k \in InitSizes :
          /\ stored = (IF k = 0 THEN None ELSE Some(StoredHistory(k)))
          /\ recorded = StoredHistory(k)

NextHistory ==
    \/ \E q \in QueryInputs : SetQuery(q)
    \/ PressSearch
    \/ OpenSearchHistory
    \/ CloseSearchHistory
    \/ \E i \in Rendered : handleHistorySelect(i)
    \/ \E i \in 1..Len(timers) : SelectTimerFires(i)
    \/ \E i \in Rendered : deleteHistoryItem(i)
    \/ clearAllHistory
    \/ \E s \in BOOLEAN : StorageCompletes(s)

HistorySpec == InitHistory /\ [][NextHistory]_vars

\* The history is also observed from the state a session is in once
\* loadSearchHistory has read the stored document.
InitLoaded ==
    /\ query = <<>>
    /\ data = <<>>
    /\ loading = FALSE
    /\ error = None
    /\ hasSearched = FALSE
    /\ statusMessage = None
    /\ location = None
    /\ storeQ = <<>>
    /\ histBefore = <<>>
    /\ deleted = {}
    /\ inflight = <<>>
    /\ timers = <<>>
    /\ locationDone = FALSE
    /\ isSearchHistoryOpen = FALSE
    /\ histOps = 0
    /\ chains = <<>>
    /\ cart = <<>>
    /\ isListModalOpen = FALSE
    /\ listName = <<>>
    /\ selectedBrands = <<>>
    /\ selectedStores = <<>>
    /\ selectedItems = <<>>
    /\ sortAsc = TRUE
    /\ filterOpen = FALSE
    /\ isHistoryOpen = FALSE
    /\ savedLists = <<>>
    /\ listQ = <<>>
    /\ alerts = <<>>
    /\ clock = 1
    /\ listOps = 0
    /\ myLists = None
    /\ \E k \in InitSizes :
          /\ stored = (IF k = 0 THEN None ELSE Some(StoredHistory(k)))
          /\ searchHistory = StoredHistory(k)
          /\ recorded = StoredHistory(k)

LoadedSpec == InitLoaded /\ [][NextHistory]_vars

\* the history on a device whose storage never fails
NextReliable ==
    \/ \E q \in QueryInputs : SetQuery(q)
    \/ PressSearch
    \/ OpenSearchHistory
    \/ CloseSearchHistory
    \/ \E i \in Rendered : handleHistorySelect(i)
    \/ \E i \in 1..Len(timers) : SelectTimerFires(i)
    \/ \E i \in Rendered : deleteHistoryItem(i)
    \/ clearAllHistory
    \/ StorageCompletes(TRUE)

ReliableSpec == InitHistory /\ [][NextReliable]_vars

\* a history a previous session can have left: ' a' is recorded as 'a'
ShortHistory == << <<"a">>, <<"a", "b">> >>

\* Searches from the button and from a selected entry, with their polling, on
\* a device that holds ShortHistory.
InitTerm ==
    /\ InitCommon
    /\ myLists = None
    /\ stored = Some(ShortHistory)
    /\ recorded = ShortHistory

\* the answers while short terms are observed
TermOutcomes ==
    { Http(200, Body("PROCESSING", Some(<<"Buscando...">>), None)),
      Http(200, Body("COMPLETED", None, Some(<<PA, PB>>))),
      NetErr(None) }

NextTerm ==
    \/ \E q \in PollQueries : SetQuery(q)
    \/ PressSearch
    \/ \E i \in 1..Len(inflight), o \in TermOutcomes : Respond(i, o)
    \/ \E i \in 1..Len(timers) : PollTimerFires(i)
    \/ OpenSearchHistory
    \/ CloseSearchHistory
    \/ \E i \in Rendered : handleHistorySelect(i)
    \/ \E i \in 1..Len(timers) : SelectTimerFires(i)
    \/ \E s \in BOOLEAN : StorageCompletes(s)

TermSpec == InitTerm /\ [][NextTerm]_vars

\* the query and the answers while the cart and the lists are observed
ListQueries == { <<"a", "a">> }
FirstResults == <<PA, PB, PA2>>
ListResults == { <<PA2, PB>> }
Completed(r) == Http(200, Body("COMPLETED", None, Some(r)))
ListOutcomes == { Completed(r) : r \in ListResults }

\* list names the user types
ListNames == { <<" ", " ">>, <<"L">> }

\* a list a previous session can have saved
PrevList == NewList(toString(0), <<"K">>, <<CartItem(PB, 1)>>, 10)

\* The cart and the lists are observed from the state a fresh session is in
\* once a first search has completed with FirstResults.
InitList ==
    LET q == CHOOSE x \in ListQueries : TRUE
        o == Completed(FirstResults)
    IN /\ query = q
       /\ data = uniqueResults(FirstResults)
       /\ loading = FALSE
       /\ error = None
       /\ hasSearched = TRUE
       /\ statusMessage = None
       /\ location = None
       /\ searchHistory = newHistory(q, <<>>)
       /\ stored = None
       /\ storeQ = <<StoreOp("get", <<>>), StoreOp("set", newHistory(q, <<>>))>>
       /\ inflight = <<>>
       /\ timers = <<>>
       /\ locationDone = FALSE
       /\ isSearchHistoryOpen = FALSE
       /\ histOps = 0
       /\ chains = <<[Chain(q, DefaultCity, DefaultProvince, <<>>) EXCEPT
                        !.resps = 1,
                        !.last = Some([outcome |-> o, result |-> searchProduct(o)])]>>
       /\ recorded = <<toLowerCase(q)>>
       /\ histBefore = << <<>>, <<>> >>
       /\ deleted = {}
       /\ cart = <<>>
       /\ isListModalOpen = FALSE
       /\ listName = <<>>
       /\ selectedBrands = <<>>
       /\ selectedStores = <<>>
       /\ selectedItems = <<>>
       /\ sortAsc = TRUE
       /\ filterOpen = FALSE
       /\ isHistoryOpen = FALSE
       /\ savedLists = <<>>
       /\ listQ = <<>>
       /\ alerts = <<>>
       /\ clock = 1
       /\ listOps = 0
       /\ myLists \in { None, Some(<<PrevList>>) }

NextCart ==
    \/ PressSearch
    \/ \E i \in 1..Len(inflight), o \in ListOutcomes : Respond(i, o)
    \/ \E i \in 1..Len(Shown) : addToCart(i)
    \/ \E i \in 1..Len(cart) : removeFromCart(i)
    \/ OpenListModal
    \/ CloseListModal
    \/ \E n \in ListNames : SetListName(n)
    \/ saveListToDevice
    \/ \E s \in BOOLEAN : ListStorageCompletes(s)
    \/ DismissAlert

\* the cart is observed on a device that holds no saved list yet
InitCart == InitList /\ myLists = None

CartSpec == InitCart /\ [][NextCart]_vars

NextList ==
    \/ \E i \in 1..Len(Shown) : addToCart(i)
    \/ \E i \in 1..Len(cart) : removeFromCart(i)
    \/ OpenListModal
    \/ CloseListModal
    \/ \E n \in ListNames : SetListName(n)
    \/ saveListToDevice
    \/ loadSavedLists
    \/ CloseSavedLists
    \/ \E i \in 1..Len(savedLists) : deleteList(i)
    \/ \E s \in BOOLEAN : ListStorageCompletes(s)
    \/ DismissAlert
    \/ Tick

ListSpec == InitList /\ [][NextList]_vars

\* every list of at most MaxResults listings
MaxResults == 3
Listings == {PA, PA2, PB}
AllResultLists == UNION { [1..n -> Listings] : n \in 0..MaxResults }

\* a list with two equal prices around a lower one
TieResults == { <<PA, PC, PB>> }

DeriveOutcomes ==
    { Http(200, Body("COMPLETED", None, r)) :
        r \in {None} \cup { Some(l) : l \in AllResultLists \cup TieResults } }

NextDerive ==
    \/ \E q \in ListQueries : SetQuery(q)
    \/ PressSearch
    \/ \E i \in 1..Len(inflight), o \in DeriveOutcomes : Respond(i, o)
    \/ OpenFilters
    \/ CloseFilters
    \/ \E b \in { p.brand : p \in Listings \cup {PC} } : ToggleBrand(b)
    \/ \E st \in { p.store : p \in Listings \cup {PC} } : ToggleStore(st)
    \/ ToggleSort

DeriveSpec == Init /\ [][NextDerive]_vars

----------------------------------------------------------------------------
(* Vocabulary of the properties *)

Chains == 1..Len(chains)

\* this step handles a response of chain c / fires a retry timer of chain c
Responded(c) == chains'[c].resps = chains[c].resps + 1
Retried(c) == chains'[c].reqs = chains[c].reqs + 1

\* the answer chain c has handled last
Answered(c) == chains[c].last.some
LastOutcome(c) == chains[c].last.v.outcome
LastResult(c) == chains[c].last.v.result

HasStatus(o, st) == o.kind = "http" /\ ok(o.code) /\ o.body.status = st
IsHttpFailure(o) == o.kind = "http" /\ ~ok(o.code)
IsRateLimited(o) == o.kind = "http" /\ o.code = 429
IsFailure(o) == o.kind = "neterr" \/ IsHttpFailure(o)

\* chain c has a request in flight or a retry timer pending
Polling(c) ==
    \/ \E i \in 1..Len(inflight) : inflight[i].chain = c
    \/ \E i \in 1..Len(timers) : timers[i].kind = "poll" /\ timers[i].chain = c

\* the retry the original invocation of chain c asks for
RetryOf(c, delay) ==
    PollTimer(c, chains[c].q, chains[c].city, chains[c].province, delay)

\* the first element of every url, in the order of the list
RECURSIVE DedupByUrl(_)
DedupByUrl(s) ==
    IF s = <<>> THEN <<>>
    ELSE <<Head(s)>> \o DedupByUrl(SelectSeq(Tail(s), LAMBDA x : x.url # Head(s).url))

ResultsOf(o) == IF o.body.results.some THEN o.body.results.v ELSE <<>>

----------------------------------------------------------------------------
(* C1: once a new search has started, no response handler and no retry-timer
   callback of an earlier search's poll chain changes data, loading,
   statusMessage or error. *)
C1_OnlyLatestChainChangesState ==
    [][\A c \in Chains :
          (c < Len(chains) /\ (Responded(c) \/ Retried(c)))
              => UNCHANGED <<data, loading, statusMessage, error>>]_vars

(* C2: when a poll request returns status EMPTY, the handler leaves the result
   set empty and loading false, and the chain issues no further request. *)
C2_EmptyEndsTheSearch ==
    [][\A c \in Chains :
          (Responded(c) /\ HasStatus(chains'[c].last.v.outcome, "EMPTY"))
              => /\ data' = <<>>
                 /\ loading' = FALSE
                 /\ timers' = timers
                 /\ \A i \in 1..Len(inflight') : inflight'[i].chain # c]_vars

(* C3: searchProduct fails for every non-successful HTTP response, and the
   failure it raises for status 429 differs from the failure it raises for
   any other non-successful status. *)
C3_RateLimitedFailureIsDistinct ==
    \A c \in Chains :
        (Answered(c) /\ IsHttpFailure(LastOutcome(c)))
            => /\ LastResult(c).threw
               /\ \A d \in Chains :
                     ( /\ IsRateLimited(LastOutcome(c))
                       /\ Answered(d) /\ IsHttpFailure(LastOutcome(d))
                       /\ ~IsRateLimited(LastOutcome(d)) )
                         => LastResult(c).message # LastResult(d).message

(* C4: when a poll request is answered with HTTP 429, error stays null, loading
   stays true, statusMessage becomes the "server busy, retrying" message, and
   exactly one retry with the same query, city and province is scheduled after
   the longer delay. *)
C4_RateLimitIsRetriedSilently ==
    [][\A c \in Chains :
          (Responded(c) /\ IsRateLimited(chains'[c].last.v.outcome))
              => /\ error' = None
                 /\ loading' = TRUE
                 /\ statusMessage' = Some(MsgBusy)
                 /\ timers' = Append(timers, RetryOf(c, RateLimitDelay))
                 /\ RateLimitDelay > PollDelay]_vars

(* C5: a poll chain that has been answered 429 goes on to a later request, so
   that a COMPLETED answer to it still completes the search: a chain whose
   latest answer is 429 is still polling. *)
C5_RateLimitedChainStillPolls ==
    \A c \in Chains :
        (Answered(c) /\ IsRateLimited(LastOutcome(c))) => Polling(c)

(* C6: in a single search, n answers STARTED or PROCESSING followed by
   COMPLETED with results R (none counting as the empty list) take exactly
   n+1 requests and leave data = R deduplicated by url, loading false and
   statusMessage null, with no further request. *)
C6_SingleSearchCompletes ==
    ( /\ Len(chains) = 1
      /\ Answered(1)
      /\ HasStatus(LastOutcome(1), "COMPLETED")
      /\ chains[1].progress = chains[1].resps - 1 )
        => /\ chains[1].reqs = chains[1].progress + 1
           /\ data = DedupByUrl(ResultsOf(LastOutcome(1)))
           /\ loading = FALSE
           /\ statusMessage = None
           /\ ~Polling(1)

C6_Witness ==
    /\ Len(chains) = 1
    /\ Answered(1)
    /\ HasStatus(LastOutcome(1), "COMPLETED")
    /\ chains[1].progress = 1
    /\ chains[1].reqs = 2
    /\ ResultsOf(LastOutcome(1)) = <<PA, PB, PA2>>
    /\ data = <<PA, PB>>

(* C7: when a poll request returns STARTED or PROCESSING, statusMessage becomes
   the response's message or the default progress message, loading stays true,
   data and error are unchanged, and exactly one retry is scheduled with the
   query, city and province of the original invocation. *)
C7_ProgressKeepsPolling ==
    [][\A c \in Chains :
          (Responded(c) /\ IsProgress(chains'[c].last.v.outcome))
              => /\ statusMessage' =
                        Some(OrElse(chains'[c].last.v.outcome.body.message,
                                    MsgDefaultProgress))
                 /\ loading' = TRUE
                 /\ data' = data
                 /\ error' = error
                 /\ timers' = Append(timers, RetryOf(c, PollDelay))]_vars

(* C8: when a poll request fails with a failure other than rate limiting, error
   becomes the failure's message (the default connection-error message if it
   has none), loading becomes false, no retry is scheduled, and the chain
   issues no further request. *)
C8_FailureEndsPolling ==
    /\ [][\A c \in Chains :
            ( /\ Responded(c)
              /\ IsFailure(chains'[c].last.v.outcome)
              /\ ~IsRateLimited(chains'[c].last.v.outcome) )
                => /\ error' = Some(OrElse(chains'[c].last.v.result.message,
                                           MsgDefaultError))
                   /\ loading' = FALSE
                   /\ timers' = timers
                   /\ Len(inflight') = Len(inflight) - 1]_vars
    /\ [](\A c \in Chains :
            (Answered(c) /\ IsFailure(LastOutcome(c)) /\ ~IsRateLimited(LastOutcome(c)))
                => ~Polling(c))

C8_Witness ==
    \E c \in Chains :
        /\ Answered(c)
        /\ LastOutcome(c) = NetErr(None)
        /\ error = Some(MsgDefaultError)
        /\ loading = FALSE
        /\ ~Polling(c)

----------------------------------------------------------------------------
(* Vocabulary of the history properties *)

EqIgnoringCase(a, b) == toLowerCase(a) = toLowerCase(b)

NoTwoEqualIgnoringCase(h) ==
    \A i, j \in 1..Len(h) : EqIgnoringCase(h[i], h[j]) => i = j

\* the place of term t in the order of last recording (1: recorded last)
Recency(t) ==
    CHOOSE k \in 1..Len(recorded) : recorded[k] = toLowerCase(t)

NewestFirst(h) ==
    /\ \A i \in 1..Len(h) : \E k \in 1..Len(recorded) : recorded[k] = toLowerCase(h[i])
    /\ \A i, j \in 1..Len(h) : i < j => Recency(h[i]) < Recency(h[j])

\* this step starts the search of chain Len(chains) + 1
SearchStarts == Len(chains') = Len(chains) + 1
Started == chains'[Len(chains')]

\* the indices of the entries of h that differ from t ignoring case
Kept(h, t) == { i \in 1..Len(h) : ~EqIgnoringCase(h[i], t) }

\* the m-th smallest element of a set of indices
Nth(S, m) == CHOOSE i \in S : Cardinality({ j \in S : j <= i }) = m

Min(a, b) == IF a < b THEN a ELSE b

\* h2 is t followed by the entries of h that differ from t ignoring case, in
\* their order, cut to the first MAX_HISTORY
IsRecordOf(h2, t, h) ==
    /\ Len(h2) = Min(MAX_HISTORY, 1 + Cardinality(Kept(h, t)))
    /\ h2[1] = t
    /\ \A m \in 2..Len(h2) : h2[m] = h[Nth(Kept(h, t), m - 1)]

----------------------------------------------------------------------------
(* C9: in every reachable state the search history has no two entries that are
   equal ignoring case, has at most 20 entries, and is ordered most recently
   recorded first. *)
C9_HistoryUniqueCappedNewestFirst ==
    /\ NoTwoEqualIgnoringCase(searchHistory)
    /\ Len(searchHistory) <= MAX_HISTORY
    /\ NewestFirst(searchHistory)

C9_UniqueAndCapped ==
    /\ NoTwoEqualIgnoringCase(searchHistory)
    /\ Len(searchHistory) <= MAX_HISTORY

(* C10: record(term) on the history H its caller holds: if term is empty after
   trimming, the history and the persisted history are unchanged and nothing
   is written; otherwise the new history is the trimmed term followed by the
   entries of H that differ from it ignoring case, in their order, cut to the
   first 20, that same sequence is handed to storage, and the term has exactly
   one entry, at index 0. *)
C10_RecordPrependsTrimmedTerm ==
    [][SearchStarts =>
          IF trim(Started.q) = <<>>
          THEN UNCHANGED <<searchHistory, stored, storeQ>>
          ELSE /\ IsRecordOf(searchHistory', trim(Started.q), Started.hist)
               /\ storeQ' = Append(storeQ, StoreOp("set", searchHistory'))
               /\ stored' = stored
               /\ { i \in 1..Len(searchHistory') :
                      EqIgnoringCase(searchHistory'[i], trim(Started.q)) } = {1}]_vars

Last(s) == s[Len(s)]

C10_Witness ==
    \E c \in Chains :
        /\ Len(chains[c].hist) = MAX_HISTORY
        /\ chains[c].q = <<"A", "a">>
        /\ chains[c].hist[MAX_HISTORY] = <<"a", "a">>
        /\ searchHistory = <<chains[c].q>> \o SubSeq(chains[c].hist, 1, MAX_HISTORY - 1)
        /\ storeQ # <<>>
        /\ Last(storeQ) = StoreOp("set", searchHistory)

----------------------------------------------------------------------------
(* Vocabulary of the cart and list properties *)

InCart(c, url) == \E i \in 1..Len(c) : c[i].url = url

\* this step completes a storage operation of saveListToDevice
SaveProceeds ==
    listQ # <<>> /\ Head(listQ).who = "save" /\ listQ' # listQ

\* c2 is c after add(p)
IsAddOf(c2, c, p) ==
    IF InCart(c, p.url)
    THEN /\ Len(c2) = Len(c)
         /\ \A i \in 1..Len(c) :
               IF c[i].url = p.url
               THEN c2[i].url = c[i].url /\ c2[i].quantity = c[i].quantity + 1
               ELSE c2[i] = c[i]
    ELSE /\ Len(c2) = Len(c) + 1
         /\ SubSeq(c2, 1, Len(c)) = c
         /\ c2[Len(c2)].url = p.url
         /\ c2[Len(c2)].quantity = 1

(* C11: in every reachable state, after any sequence of add, remove and save
   operations, no two cart items have the same url and every cart item has an
   integer quantity of at least 1. *)
C11_CartItemsUniquePositive ==
    /\ \A i, j \in 1..Len(cart) : cart[i].url = cart[j].url => i = j
    /\ \A i \in 1..Len(cart) : cart[i].quantity \in Nat /\ cart[i].quantity >= 1

C11_Witness ==
    /\ myLists.some
    /\ Len(cart) = 2
    /\ cart[1].url = PB.url /\ cart[1].quantity = 1
    /\ cart[2].url = PA.url /\ cart[2].quantity = 2

(* C12: add(listing): if the cart already has an item with the listing's url,
   that item's quantity increases by exactly 1 and its position and all other
   items are unchanged; otherwise the listing is appended at the end with
   quantity 1.  Adding the same listing twice to a cart that lacks it yields
   one item with quantity 2. *)
C12_AddIncrementsOrAppends ==
    /\ [][(AtMain /\ cart' # cart /\ ~SaveProceeds)
            => \E i \in 1..Len(Shown) : IsAddOf(cart', cart, Shown[i])]_vars
    /\ [](\A i \in 1..Len(Shown) :
            ~InCart(cart, Shown[i].url)
                => LET twice == added(added(cart, Shown[i]), Shown[i])
                   IN /\ Len(twice) = Len(cart) + 1
                      /\ SubSeq(twice, 1, Len(cart)) = cart
                      /\ twice[Len(twice)].url = Shown[i].url
                      /\ twice[Len(twice)].quantity = 2)

C12_Witness ==
    /\ cart = <<CartItem(PA, 2), CartItem(PB, 1)>>
    /\ data = <<PA2, PB>>

\* the persisted collection
Persisted == parsed(myLists)
PersistedNext == parsed(myLists')

\* this step completes the write of a save, successfully
SaveWritten ==
    /\ listQ # <<>> /\ Head(listQ).who = "save" /\ Head(listQ).op = "set"
    /\ listQ' = Tail(listQ)
    /\ alerts' = Append(alerts, AlertSaved)

\* this step completes the write of delete(id)
DeleteCompletes(id) ==
    /\ listQ # <<>> /\ Head(listQ).who = "delete" /\ Head(listQ).id = id
    /\ listQ' = Tail(listQ)

\* sum of price x quantity
RECURSIVE Total(_)
Total(items) ==
    IF items = <<>> THEN 0
    ELSE items[1].price * items[1].quantity + Total(Tail(items))

\* the lists of s whose id is not id, in their order
RECURSIVE Without(_, _)
Without(s, id) ==
    IF s = <<>> THEN <<>>
    ELSE IF Head(s).id = id THEN Without(Tail(s), id)
    ELSE <<Head(s)>> \o Without(Tail(s), id)

(* C13: a saved list is an immutable snapshot: once a list has been persisted,
   no later add or remove on the live cart and no later save changes its id,
   name, items, quantities or total; it only ever disappears through
   delete(id) with its own id. *)
C13_SavedListIsImmutable ==
    [][\A k \in 1..Len(Persisted) :
          \/ \E j \in 1..Len(PersistedNext) : PersistedNext[j] = Persisted[k]
          \/ DeleteCompletes(Persisted[k].id)]_vars

(* C14: save with a name that is empty or only whitespace is rejected with a
   user-visible validation error and changes nothing: the persisted list
   collection, the cart, the list name and the modal state are unchanged and
   storage is not accessed. *)
C14_BlankNameIsRejected ==
    [][(AtListModal /\ trim(listName) = <<>>)
          => /\ Len(listQ') <= Len(listQ)
             /\ (alerts' # alerts /\ listQ' = listQ)
                   => /\ alerts' = <<AlertNameRequired>>
                      /\ UNCHANGED <<myLists, cart, listName, isListModalOpen>>]_vars

C14_Witness ==
    /\ alerts = <<AlertNameRequired>>
    /\ isListModalOpen
    /\ listName = <<" ", " ">>
    /\ cart # <<>>
    /\ listQ = <<>>
    /\ myLists = None

(* C15: every saved list gets a unique id: in every reachable state the lists
   of the persisted collection have pairwise distinct ids, for any sequence of
   saves and deletes, including two saves that read the same clock value. *)
C15_ListIdsAreUnique ==
    \A i, j \in 1..Len(Persisted) : Persisted[i].id = Persisted[j].id => i = j

(* C16: a successful save puts the new list (name, items equal to the cart at
   the time of the save, total equal to the cart total) at index 0 of the
   persisted collection and keeps every list that was persisted before it, in
   the same relative order, for any interleaving of overlapping save and
   delete operations. *)
C16_SavePrependsAndKeeps ==
    [][SaveWritten
          => /\ PersistedNext # <<>>
             /\ PersistedNext[1].name = Head(listQ).name
             /\ PersistedNext[1].items = Head(listQ).items
             /\ PersistedNext[1].total = Total(Head(listQ).items)
             /\ Tail(PersistedNext) = Persisted]_vars

(* C17: delete(id) on saved lists removes exactly the lists with that id:
   afterwards the persisted collection is the previously persisted collection
   without that id, in the same order, and every other persisted list remains,
   including a list whose save completed after the saved-lists view was
   loaded. *)
C17_DeleteRemovesOnlyThatId ==
    [][(listQ # <<>> /\ DeleteCompletes(Head(listQ).id) /\ myLists' # myLists)
          => PersistedNext = Without(Persisted, Head(listQ).id)]_vars

----------------------------------------------------------------------------
(* Vocabulary of the properties of the derived view *)

Urls(s) == { s[i].url : i \in 1..Len(s) }

\* the index of the first element of s with that url
FirstAt(s, url) ==
    CHOOSE i \in 1..Len(s) : s[i].url = url /\ \A j \in 1..(i - 1) : s[j].url # url

Elements(s) == { s[i] : i \in 1..Len(s) }

\* item selections the filter is applied to
ItemSelections ==
    { <<>>, << <<"a">> >>, << <<"B">> >>, << <<"a", "c">>, <<"B", "A">> >>,
      << <<"a", "c">> >> }

\* needle occurs in text, letters compared ignoring case
OccursIgnoringCase(needle, text) ==
    \E start \in 1..(Len(text) - Len(needle) + 1) :
        \A j \in 1..Len(needle) : Lower(text[start + j - 1]) = Lower(needle[j])

\* the three facet predicates of the filter
Matches(p, brands, stores, items) ==
    /\ brands = <<>> \/ p.brand \in Elements(brands)
    /\ stores = <<>> \/ p.store \in Elements(stores)
    /\ items = <<>> \/ \E x \in Elements(items) : OccursIgnoringCase(x, p.product_name)

\* the place of a listing in data
PlaceInData(p) == CHOOSE k \in 1..Len(data) : data[k] = p

(* C18: for every result list R returned with COMPLETED, the stored data has
   no two elements with the same url, has exactly one element for every url
   that occurs in R, namely its first occurrence, and keeps those elements in
   their original relative order. *)
C18_CompletedDataIsDeduplicated ==
    [][\A c \in Chains :
          (Responded(c) /\ HasStatus(chains'[c].last.v.outcome, "COMPLETED"))
              => LET R == ResultsOf(chains'[c].last.v.outcome)
                 IN /\ \A i, j \in 1..Len(data') :
                          data'[i].url = data'[j].url => i = j
                    /\ Urls(data') = Urls(R)
                    /\ \A i \in 1..Len(data') : data'[i] = R[FirstAt(R, data'[i].url)]
                    /\ \A i, j \in 1..Len(data') :
                          i < j => FirstAt(R, data'[i].url) < FirstAt(R, data'[j].url)]_vars

C18_Witness ==
    /\ data = <<PA2, PB>>
    /\ \E c \in Chains :
          Answered(c) /\ HasStatus(LastOutcome(c), "COMPLETED")
              /\ ResultsOf(LastOutcome(c)) = <<PA2, PB, PA>>

(* C19: for all filter selections, an item of data appears in the filtered
   output if and only if (selectedBrands is empty or the item's brand is in
   selectedBrands) and (selectedStores is empty or the item's store is in
   selectedStores) and (selectedItems is empty or some selected item is a
   case-insensitive substring of the item's product_name); the brand predicate
   is keyed on the item's brand, not its store. *)
C19_FilteredIffAllThreeFacets ==
    \A items \in ItemSelections \cup {selectedItems} :
        LET out == filtered(data, selectedBrands, selectedStores, items, sortAsc)
        IN \A k \in 1..Len(data) :
              data[k] \in Elements(out)
                  <=> Matches(data[k], selectedBrands, selectedStores, items)

C19_Witness ==
    /\ data = <<PA2, PB>>
    /\ selectedBrands = <<"B2">>
    /\ selectedStores = <<"S2">>
    /\ Shown = <<PB>>
    /\ filtered(data, <<>>, selectedStores, << <<"a">> >>, sortAsc) = <<PA2>>

(* C20: the displayed list is a permutation of the filtered items ordered by
   price, non-decreasing when the sort toggle is ascending and non-increasing
   when it is descending, and the sort is stable: items with equal price keep
   their original relative order in both directions. *)
C20_SortedByPriceStable ==
    LET kept == { p \in Elements(data) :
                    Matches(p, selectedBrands, selectedStores, selectedItems) }
    IN /\ Elements(Shown) = kept
       /\ Len(Shown) = Cardinality(kept)
       /\ \A i, j \in 1..Len(Shown) :
             i < j => /\ sortAsc => Shown[i].price <= Shown[j].price
                      /\ ~sortAsc => Shown[i].price >= Shown[j].price
                      /\ Shown[i].price = Shown[j].price
                            => PlaceInData(Shown[i]) < PlaceInData(Shown[j])

C20_Witness ==
    /\ ~sortAsc
    /\ data = <<PA, PC, PB>>
    /\ Shown = <<PA, PB, PC>>

\* the smallest price among the items of l
MinPrice(l) == CHOOSE m \in { l[i].price : i \in 1..Len(l) } :
                  \A i \in 1..Len(l) : m <= l[i].price

(* C21: cheapestPrice is undefined exactly when the filtered result is empty,
   and otherwise it is the smallest price among the filtered items, for the
   ascending and for the descending sort direction, so that exactly the items
   with the minimum price are marked as cheapest. *)
C21_CheapestIsMinimum ==
    /\ cheapestPrice(Shown) = None <=> Shown = <<>>
    /\ Shown # <<>> => cheapestPrice(Shown) = Some(MinPrice(Shown))
    /\ \A i \in 1..Len(Shown) :
          cheapest(Shown, i) <=> Shown[i].price = MinPrice(Shown)

\* this step completes the oldest operation on '@search_history'
Completes == storeQ # <<>> /\ Len(storeQ') = Len(storeQ) - 1

\* ... and it is a write that did not reach the document
WriteFails ==
    /\ Completes
    /\ \/ Head(storeQ).op = "set" /\ stored' # Some(Head(storeQ).value)
       \/ Head(storeQ).op = "remove" /\ stored' # None

(* C22: when the write of a history operation (record, delete, clear) fails
   and no other history operation is in progress, nothing is shown to the
   user and the operation is a no-op: the in-memory history is again what it
   was before the operation, the error state is not set, and the polling of a
   search that triggered the record goes on. *)
C22_FailedWriteIsNoOp ==
    [][(Len(storeQ) = 1 /\ WriteFails)
          => /\ searchHistory' = Head(histBefore)
             /\ UNCHANGED <<error, alerts, loading, inflight, timers>>]_vars

(* C23: in every reachable state the cart total is the sum over the cart's
   items of price times quantity, and the total of every persisted saved list
   is the sum of price times quantity over that list's own items. *)
C23_TotalsAreSums ==
    /\ totalCartPrice(cart) = Total(cart)
    /\ \A i \in 1..Len(Persisted) : Persisted[i].total = Total(Persisted[i].items)

C23_Witness ==
    /\ Len(cart) = 2
    /\ \E i \in 1..Len(cart) : cart[i].quantity = 2
    /\ Len(Persisted) = 2
    /\ \E k \in 1..Len(Persisted[1].items) : Persisted[1].items[k].quantity = 2
    /\ Persisted[1].total = 30

\* the requests in flight and the retry timers pending of chain c
InFlightOf(c) == { i \in 1..Len(inflight) : inflight[i].chain = c }
RetriesOf(c) == { i \in 1..Len(timers) : timers[i].kind = "poll" /\ timers[i].chain = c }

(* C24: for every search invocation, at every moment at most one request in
   flight or one pending retry timer belongs to its poll chain: a chain never
   forks into two concurrent retries. *)
C24_ChainNeverForks ==
    \A c \in Chains : Cardinality(InFlightOf(c)) + Cardinality(RetriesOf(c)) <= 1

C24_Witness ==
    /\ Len(chains) = 2
    /\ chains[1].reqs = 2 /\ Cardinality(InFlightOf(1)) = 1
    /\ chains[2].resps = 1 /\ Cardinality(RetriesOf(2)) = 1

\* the lookup has produced a city and a province
Geocoded ==
    location.some /\ location.v.city # "Unknown" /\ location.v.province # "Unknown"

(* C25: every search request carries a location: the city and the province
   that geolocation and reverse geocoding produced when they succeeded, and
   the default location (MAR_DEL_PLATA, BUENOS_AIRES) when permission was
   denied, the lookup has not finished, or the lookup failed to produce a
   city and a province. *)
C25_RequestCarriesLocationOrDefault ==
    [][SearchStarts
          => /\ Last(inflight').city = Started.city
             /\ Last(inflight').province = Started.province
             /\ IF Geocoded
                THEN /\ Started.city = location.v.city
                     /\ Started.province = location.v.province
                ELSE /\ Started.city = DefaultCity
                     /\ Started.province = DefaultProvince]_vars

\* term t (in lower case) has an entry in the history h
InHistory(h, t) == \E i \in 1..Len(h) : toLowerCase(h[i]) = t

(* C26: no recorded term is lost to the interleaving of searches from the
   search button, searches from a selected history entry (which run after a
   delay) and deletes: a term that was recorded and not deleted afterwards is
   in the history unless 20 or more distinct terms were recorded after it,
   and a deleted term is not in the history unless it was recorded again. *)
C26_NoTermLostOrBack ==
    /\ \A k \in 1..Min(Len(recorded), MAX_HISTORY) :
          recorded[k] \notin deleted => InHistory(searchHistory, recorded[k])
    /\ \A t \in deleted : ~InHistory(searchHistory, t)

(* C27: in every reachable state loading is true if and only if the most
   recently started search has a request in flight or a retry timer pending:
   loading does not stay true once that chain has stopped and does not become
   false while that chain is polling. *)
C27_LoadingIffLatestChainPolls ==
    loading <=> (chains # <<>> /\ Polling(Len(chains)))

(* C28: in every reachable state that shows results, every selected brand is
   one of the brands of the current result set and every selected store is
   one of its stores: a new search leaves no selection of the previous result
   set active, so every selection can be undone from the offered facets. *)
C28_SelectionsAreOfferedFacets ==
    data # <<>>
       => /\ \A i \in 1..Len(selectedBrands) : has(brandFilter, selectedBrands[i])
          /\ \A i \in 1..Len(selectedStores) : has(storeFilter, selectedStores[i])

\* no operation on the history is in progress: none waits for storage and no
\* selected entry waits for its delayed search
HistoryQuiet ==
    /\ storeQ = <<>>
    /\ \A i \in 1..Len(timers) : timers[i].kind # "select"

(* C29: whenever no history operation is in progress and no persistence
   error has occurred, the persisted search history equals the in-memory
   history, an absent document counting as the empty list; this holds also
   when a record runs before the initial load has finished. *)
C29_PersistedEqualsInMemory ==
    HistoryQuiet => searchHistory = (IF stored.some THEN stored.v ELSE <<>>)

(* C30: a search request whose term is shorter than 2 characters is a no-op:
   no network request is issued, nothing is recorded in the history, and
   loading, error, statusMessage and data are unchanged.  Every search that
   starts has a term of at least 2 characters, and a step that starts no
   search issues a request only as a retry, hands nothing to storage, changes
   the history only when storage completes, and changes loading, error,
   statusMessage and data only when it handles a response. *)
C30_ShortTermIsNoOp ==
    [][/\ SearchStarts => Len(Started.q) >= 2
       /\ ~SearchStarts
             => /\ Len(inflight') > Len(inflight) => \E c \in Chains : Retried(c)
                /\ Len(storeQ') <= Len(storeQ)
                /\ searchHistory' # searchHistory => Completes
                /\ (\A c \in Chains : ~Responded(c))
                      => UNCHANGED <<loading, error, statusMessage, data>>]_vars

C30_Witness ==
    /\ query = <<"a">>
    /\ histOps = 1 /\ timers = <<>>
    /\ Len(chains) = 1 /\ chains[1].q = <<"a", "a">>
    /\ loading /\ inflight # <<>>

====
